---- MODULE Spec2Model ----
(***************************************************************************)
(* The text overlay of the editor preview (EditableText): drag to move,    *)
(* double-click to edit inline, Enter/blur to commit, Escape to cancel.    *)
(* One component instance, its React state, the closures it installs on    *)
(* the document, its gsap playback, and the store attributes it reads and  *)
(* writes; the style panels that write the same store; and two instances   *)
(* side by side for what they share through the document.                  *)
(***************************************************************************)
EXTENDS Integers, Sequences, FiniteSets, TLC

(***************************************************************************)
(* Bounds of the model.                                                    *)
(***************************************************************************)
\* longest draft a line break is inserted into, counting the break
MaxLen == 3
\* most mouse buttons held at once (each pointer-down installs one pair of
\* document listeners)
MaxButtons == 2
\* most pointer-downs followed on the element where it is drawn
MaxGrabs == 2

(***************************************************************************)
(* Exact rational arithmetic for the coordinate transform: a value is      *)
(* <<numerator, denominator>> in lowest terms with a positive denominator. *)
(***************************************************************************)
Abs(n) == IF n < 0 THEN -n ELSE n

RECURSIVE GCD(_, _)
GCD(a, b) == IF b = 0 THEN a ELSE GCD(b, a % b)

RNorm(n, d) ==
    LET s == IF d < 0 THEN -1 ELSE 1
        g == GCD(Abs(n), Abs(d))
    IN  << (s * n) \div g, (s * d) \div g >>

R(n) == << n, 1 >>
RSub(a, b) == RNorm(a[1] * b[2] - b[1] * a[2], a[2] * b[2])
RAdd(a, b) == RNorm(a[1] * b[2] + b[1] * a[2], a[2] * b[2])
RMul(a, b) == RNorm(a[1] * b[1], a[2] * b[2])
RDiv(a, b) == RNorm(a[1] * b[2], a[2] * b[1])
RNeg(a) == << -a[1], a[2] >>
RLe(a, b) == a[1] * b[2] <= b[1] * a[2]
Half == RNorm(1, 2)

\* Math.max / Math.min on numbers
MathMax(a, b) == IF RLe(a, b) THEN b ELSE a
MathMin(a, b) == IF RLe(a, b) THEN a ELSE b

\* Math.max and Math.min on whole numbers
MathMaxInt(a, b) == IF a >= b THEN a ELSE b

MathMinInt(a, b) == IF a <= b THEN a ELSE b

(***************************************************************************)
(* Inputs the environment supplies.                                        *)
(***************************************************************************)
NL == "\n"

\* the texts typed into the textarea or the properties panel
Texts == { << >>, << "A" >>, << "B" >>, << "A", "B" >>, << "A", NL >>,
           << "A", NL, "B" >> }

\* pointer positions (clientX, clientY) of mouse events
PointerPts == { << 480, 270 >>, << 1000, 0 >> }

\* pointer positions of a mousedown on the element
DownPts == { << 480, 270 >>, << 500, 280 >> }

\* canvasSize prop values
CanvasSizes == { [width |-> 1920, height |-> 1080], [width |-> 1080, height |-> 1920] }

\* a ref whose .current is null
NoRect == [avail |-> FALSE, left |-> 0, top |-> 0, width |-> 0, height |-> 0]

\* getBoundingClientRect() of the preview surface, when it is mounted
PreviewRects ==
    { [avail |-> TRUE, left |-> 0, top |-> 0, width |-> 960, height |-> 540],
      [avail |-> TRUE, left |-> 100, top |-> 50, width |-> 480, height |-> 270] }

\* elementRef.current is null
NoElementRect ==
    [avail |-> FALSE, left |-> << 0, 1 >>, top |-> << 0, 1 >>,
     width |-> << 0, 1 >>, height |-> << 0, 1 >>]

\* getBoundingClientRect() of the element's own node; a DOMRect's fields are
\* fractional numbers
ElementRects ==
    { [avail |-> TRUE, left |-> << 430, 1 >>, top |-> << 250, 1 >>,
       width |-> << 100, 1 >>, height |-> << 40, 1 >>] }

\* values of the API-key field: empty, or a key
ApiKeys == { "", "key" }

(***************************************************************************)
(* Style values.  A style object comes from JSON.parse and is typed any, so *)
(* a field holds a number, a string, or is missing.  Opacity and font size *)
(* are kept in hundredths so that 0.5 is a whole number.                   *)
(***************************************************************************)
Undefined == [t |-> "undefined", n |-> 0, s |-> ""]

Num(n) == [t |-> "number", n |-> n, s |-> ""]

Str(s) == [t |-> "string", n |-> 0, s |-> s]

\* JavaScript truthiness of a value: undefined, 0 and "" are falsy
Truthy(v) ==
    \/ v.t = "number" /\ v.n # 0
    \/ v.t = "string" /\ v.s # ""

\* the fields applyStyle copies when they are truthy
TruthyFields == {"fontSize", "fontFamily", "color", "backgroundColor",
                 "textAlign", "fontWeight", "fontStyle", "textDecoration"}

\* the fields applyStyle may copy
StyleFields == TruthyFields \cup {"opacity"}

\* a style object with no field set
NoStyle ==
    [name |-> Undefined, description |-> Undefined, fontSize |-> Undefined,
     fontFamily |-> Undefined, color |-> Undefined,
     backgroundColor |-> Undefined, textAlign |-> Undefined,
     fontWeight |-> Undefined, fontStyle |-> Undefined,
     textDecoration |-> Undefined, textShadow |-> Undefined,
     opacity |-> Undefined]

\* the quickStyles presets
QuickStyles ==
    { [NoStyle EXCEPT !.name = Str("Bold Title"), !.fontSize = Num(6400),
                      !.fontWeight = Str("bold"), !.color = Str("#ffffff"),
                      !.textShadow = Str("2px 2px 4px rgba(0,0,0,0.8)")],
      [NoStyle EXCEPT !.name = Str("Subtitle"), !.fontSize = Num(3200),
                      !.fontWeight = Str("normal"), !.color = Str("#cccccc"),
                      !.fontStyle = Str("italic")],
      [NoStyle EXCEPT !.name = Str("Neon Glow"), !.fontSize = Num(4800),
                      !.fontWeight = Str("bold"), !.color = Str("#00ff00"),
                      !.textShadow = Str("0 0 20px #00ff00, 0 0 30px #00ff00")] }

\* style objects parsed from a model response: the one the prompt gives as
\* the expected structure, and objects a response is free to contain
GeneratedStyles ==
    { [name |-> Str("Style Name"), description |-> Str("Brief description"),
       fontSize |-> Num(4800), fontFamily |-> Str("Arial"),
       color |-> Str("#ffffff"), backgroundColor |-> Str("transparent"),
       textAlign |-> Str("center"), fontWeight |-> Str("bold"),
       fontStyle |-> Str("normal"), textDecoration |-> Str("none"),
       textShadow |-> Str("0 0 10px rgba(255,255,255,0.5)"),
       opacity |-> Num(100)],
      [NoStyle EXCEPT !.name = Str("Faded"), !.fontSize = Num(0),
                      !.color = Str(""), !.opacity = Num(0)],
      [NoStyle EXCEPT !.name = Str("Half"), !.textAlign = Str("left"),
                      !.textDecoration = Str("underline"),
                      !.opacity = Num(50)],
      [NoStyle EXCEPT !.name = Str("Huge"), !.fontSize = Str("48px"),
                      !.fontFamily = Str("Georgia"), !.opacity = Num(500)],
      [NoStyle EXCEPT !.name = Str("Loud"), !.fontSize = Num(-1200),
                      !.backgroundColor = Str("#000000"),
                      !.opacity = Str("0.5")] }

\* the number parseInt returns when it finds no digits
NaN == [t |-> "NaN", n |-> 0, s |-> ""]

\* the decimal digits, "0" first
Digits == << "0", "1", "2", "3", "4", "5", "6", "7", "8", "9" >>

IsDigit(c) == \E k \in 1..Len(Digits) : Digits[k] = c

DigitValue(c) == (CHOOSE k \in 1..Len(Digits) : Digits[k] = c) - 1

\* what a number input reports as its value: "" when the entry is not a
\* number, otherwise the entry
FontSizeEntries ==
    { << >>, << "7" >>, << "4", "8" >>, << "-", "5" >>, << "1", ".", "5" >>,
      << "1", "e", "3" >> }

\* the style attributes of the element addElementToTrack creates
DefaultAttrs ==
    [fontSize |-> Num(4800), fontFamily |-> Str("Arial"),
     color |-> Str("#ffffff"), backgroundColor |-> Str("transparent"),
     textAlign |-> Str("center"), fontWeight |-> Str("normal"),
     fontStyle |-> Str("normal"), textDecoration |-> Str("none"),
     rotation |-> Num(0), opacity |-> Num(100)]

\* two overlay elements of one track
ElementIds == {1, 2}

\* the state a freshly mounted EditableText has: useState(false),
\* useState({x: 0, y: 0}), useState(element.content), useState(false)
NewElement(content) ==
    [content |-> content, isEditing |-> FALSE, isDragging |-> FALSE,
     dragOffset |-> [x |-> R(0), y |-> R(0)], editContent |-> content,
     isAnimating |-> FALSE, timeline |-> << >>]

VARIABLES
    mounted,        \* the component instance exists
    element,        \* the store's element: content, x, y
    canvasSize,     \* canvasSize prop of the current render
    isEditing,      \* useState(false)
    isDragging,     \* useState(false)
    dragOffset,     \* useState({x: 0, y: 0})
    editContent,    \* useState(element.content)
    moveListeners,  \* document 'mousemove' listeners, in registration order
    upListeners,    \* document 'mouseup' listeners, in registration order
    buttons,        \* mouse buttons currently held
    staleBlur,      \* the focused textarea is being removed: its onBlur closure
    lastEvent,      \* the event handled by the last step
    emitted,        \* onPositionUpdate calls made by the last step, in order
    written,        \* updateTextElement calls made by the last step, in order
    preEdit,        \* stored content when the current/last edit session began
    sessionWrites,  \* content writes made by the current/last edit session
    isAnimating,    \* useState(false)
    timelines,      \* the gsap timelines that have not completed, oldest first
    spans,          \* the <span> children playAnimation put into the display node
    lastRef,        \* previewRef.current's rect as the last 'mousemove' found it
    attrs,          \* the element's style attributes in the store
    applied,        \* the updates objects the last step passed to updateTextElement
    typed,          \* e.target.value of the last change of the font-size input
    els,            \* two overlay elements side by side: each one's component state
    docListeners,   \* the handler pairs the two elements have on the document
    focused,        \* the element whose textarea has the input focus, 0 for none
    pressed,        \* pointer buttons held down over the two elements
    lastMulti,      \* the last event on the two elements and the element it was on
    grab,           \* the last pointer-down on the element as it is rendered
    aiApiKey,       \* useState("") of the style panel
    prompt,         \* useState("")
    isLoading,      \* useState(false)
    generatedStyles, \* useState([])
    request         \* the generateContent call that has not settled

vars == << mounted, element, canvasSize, isEditing, isDragging, dragOffset,
           editContent, moveListeners, upListeners, buttons, staleBlur,
           lastEvent, emitted, written, preEdit, sessionWrites,
           isAnimating, timelines, spans, lastRef, attrs, applied, typed,
           els, docListeners, focused, pressed, lastMulti, grab,
           aiApiKey, prompt, isLoading, generatedStyles, request >>

\* the state of one overlay element on its own
soloVars == << mounted, element, canvasSize, isEditing, isDragging, dragOffset,
               editContent, moveListeners, upListeners, buttons, staleBlur,
               lastEvent, emitted, written, preEdit, sessionWrites,
               isAnimating, timelines, spans, lastRef, attrs, applied,
               typed, grab, aiApiKey, prompt, isLoading, generatedStyles,
               request >>

\* the state of two overlay elements side by side
multiVars == << els, docListeners, focused, pressed, lastMulti >>

\* the state of the animation playback
animVars == << isAnimating, timelines, spans >>

\* the state the style panels write
styleVars == << attrs, applied, typed >>

\* the state of the panel that asks the model for styles
genVars == << aiApiKey, prompt, isLoading, generatedStyles, request >>

\* no pointer-down on the rendered element yet
NoGrab == [e |-> << 0, 0 >>, rect |-> NoRect, x |-> R(0), y |-> R(0),
           canvasSize |-> [width |-> 0, height |-> 0], accepted |-> FALSE,
           count |-> 0]

\* no generateContent call made yet
NoRequest ==
    [pending |-> FALSE, rejected |-> FALSE,
     response |-> [text |-> << >>, kind |-> "none", styles |-> << >>]]

NoBlur == [pending |-> FALSE, editContent |-> << >>]

Init ==
    /\ mounted = TRUE
    /\ element = [content |-> << "A" >>, x |-> R(0), y |-> R(0)]
    /\ canvasSize = [width |-> 1920, height |-> 1080]
    /\ isEditing = FALSE
    /\ isDragging = FALSE
    /\ dragOffset = [x |-> R(0), y |-> R(0)]
    /\ editContent = element.content
    /\ moveListeners = << >>
    /\ upListeners = << >>
    /\ buttons = 0
    /\ staleBlur = NoBlur
    /\ lastEvent = "init"
    /\ emitted = << >>
    /\ written = << >>
    /\ preEdit = element.content
    /\ sessionWrites = 0
    /\ isAnimating = FALSE
    /\ timelines = << >>
    /\ spans = << >>
    /\ lastRef = NoRect
    /\ attrs = DefaultAttrs
    /\ applied = << >>
    /\ typed = << >>
    /\ els = [a \in ElementIds |-> NewElement(<< "A" >>)]
    /\ docListeners = << >>
    /\ focused = 0
    /\ pressed = 0
    /\ lastMulti = [type |-> "init", target |-> 0]
    /\ grab = NoGrab
    /\ aiApiKey = ""
    /\ prompt = ""
    /\ isLoading = FALSE
    /\ generatedStyles = << >>
    /\ request = NoRequest

(***************************************************************************)
(* Drag: handleMouseDown and the two closures it puts on the document.     *)
(***************************************************************************)
\* elementRect.left + elementRect.width / 2, elementRect.top + elementRect.height / 2
CenterOf(rect) ==
    [x |-> RAdd(rect.left, RDiv(rect.width, R(2))),
     y |-> RAdd(rect.top, RDiv(rect.height, R(2)))]

\* the offset measured from the node's top-left corner
GrabOffsetFromCorner(e, elementRect) ==
    [x |-> RSub(R(e[1]), elementRect.left),
     y |-> RSub(R(e[2]), elementRect.top)]

\* const offset = { x: e.clientX - center.x, y: e.clientY - center.y }
GrabOffset(e, elementRect) ==
    [x |-> RSub(R(e[1]), CenterOf(elementRect).x),
     y |-> RSub(R(e[2]), CenterOf(elementRect).y)]

\* NewCoord measured from the viewport instead of from the preview surface
NewCoordNoStart(client, offset, start, extent, size) ==
    RMul(RSub(RDiv(RSub(R(client), offset), R(extent)), Half), R(size))

\* ((client - offset - start) / extent - 0.5) * size
NewCoord(client, offset, start, extent, size) ==
    RMul(RSub(RDiv(RSub(RSub(R(client), offset), R(start)), R(extent)), Half), R(size))

\* Constrain without the Math.min
ConstrainLowerOnly(size, v) ==
    MathMax(RDiv(R(-size), R(2)), v)

\* Math.max(-size / 2, Math.min(size / 2, v))
Constrain(size, v) ==
    MathMax(RDiv(R(-size), R(2)), MathMin(RDiv(R(size), R(2)), v))

\* One run of the closure handleMouseMove: the onPositionUpdate calls it makes
\* (none when the preview ref is empty).  Besides x and y, a call records the
\* inputs it was computed from.
\* handleMouseMove without its first line: a missing rect reads as the origin
handleMouseMoveUnchecked(closure, e, ref) ==
    IF ~ref.avail
    THEN << [x |-> R(0), y |-> R(0), e |-> e, rect |-> ref,
             offset |-> closure.offset, canvasSize |-> closure.canvasSize] >>
    ELSE LET newX == NewCoord(e[1], closure.offset.x, ref.left, ref.width,
                              closure.canvasSize.width)
             newY == NewCoord(e[2], closure.offset.y, ref.top, ref.height,
                              closure.canvasSize.height)
             constrainedX == Constrain(closure.canvasSize.width, newX)
             constrainedY == Constrain(closure.canvasSize.height, newY)
         IN  << [x |-> constrainedX, y |-> constrainedY, e |-> e, rect |-> ref,
                 offset |-> closure.offset, canvasSize |-> closure.canvasSize] >>

handleMouseMove(closure, e, ref) ==
    IF ~ref.avail THEN << >>
    ELSE LET newX == NewCoord(e[1], closure.offset.x, ref.left, ref.width,
                              closure.canvasSize.width)
             newY == NewCoord(e[2], closure.offset.y, ref.top, ref.height,
                              closure.canvasSize.height)
             constrainedX == Constrain(closure.canvasSize.width, newX)
             constrainedY == Constrain(closure.canvasSize.height, newY)
         IN  << [x |-> constrainedX, y |-> constrainedY, e |-> e, rect |-> ref,
                 offset |-> closure.offset, canvasSize |-> closure.canvasSize] >>

RECURSIVE Dispatch(_, _, _)
\* the document runs every 'mousemove' listener in registration order
Dispatch(listeners, e, ref) ==
    IF listeners = << >> THEN << >>
    ELSE handleMouseMove(Head(listeners), e, ref) \o Dispatch(Tail(listeners), e, ref)

\* the host forwards each onPositionUpdate(x, y) into the store
ForwardPosition(el, calls) ==
    IF calls = << >> \/ ~mounted THEN el
    ELSE [el EXCEPT !.x = calls[Len(calls)].x, !.y = calls[Len(calls)].y]

Ids(listeners) == { listeners[i].id : i \in 1..Len(listeners) }
Without(listeners, ids) == SelectSeq(listeners, LAMBDA c : c.id \notin ids)

\* handleMouseDown without its first line
handleMouseDownUnguarded(e, elementRect) ==
    IF ~elementRect.avail
    THEN UNCHANGED << dragOffset, isDragging, moveListeners, upListeners >>
    ELSE LET offset == GrabOffset(e, elementRect)
             closure == [id |-> Len(upListeners) + 1, offset |-> offset,
                         canvasSize |-> canvasSize]
         IN  /\ dragOffset' = offset
             /\ isDragging' = TRUE
             /\ moveListeners' = Append(moveListeners, closure)
             /\ upListeners' = Append(upListeners, closure)

\* handleMouseDown that marks the drag before it looks for the rect
handleMouseDownMarksFirst(e, elementRect) ==
    IF isEditing
    THEN UNCHANGED << dragOffset, isDragging, moveListeners, upListeners >>
    ELSE IF ~elementRect.avail
    THEN /\ isDragging' = TRUE
         /\ UNCHANGED << dragOffset, moveListeners, upListeners >>
    ELSE LET offset == GrabOffset(e, elementRect)
             closure == [id |-> Len(upListeners) + 1, offset |-> offset,
                         canvasSize |-> canvasSize]
         IN  /\ dragOffset' = offset
             /\ isDragging' = TRUE
             /\ moveListeners' = Append(moveListeners, closure)
             /\ upListeners' = Append(upListeners, closure)

handleMouseDown(e, elementRect) ==
    IF isEditing \/ ~elementRect.avail
    THEN UNCHANGED << dragOffset, isDragging, moveListeners, upListeners >>
    ELSE LET offset == GrabOffset(e, elementRect)
             closure == [id |-> Len(upListeners) + 1, offset |-> offset,
                         canvasSize |-> canvasSize]
         IN  /\ dragOffset' = offset
             /\ isDragging' = TRUE
             /\ moveListeners' = Append(moveListeners, closure)
             /\ upListeners' = Append(upListeners, closure)

\* handleMouseUp without setIsDragging(false)
handleMouseUpKeepsDragging ==
    /\ isDragging' = isDragging
    /\ moveListeners' = Without(moveListeners, Ids(upListeners))
    /\ upListeners' = Without(upListeners, Ids(upListeners))

\* handleMouseUp that removes only itself
handleMouseUpKeepsMove ==
    /\ isDragging' = IF mounted /\ upListeners # << >> THEN FALSE ELSE isDragging
    /\ moveListeners' = moveListeners
    /\ upListeners' = Without(upListeners, Ids(upListeners))

\* every registered closure handleMouseUp runs on one 'mouseup'
handleMouseUp ==
    /\ isDragging' = IF mounted /\ upListeners # << >> THEN FALSE ELSE isDragging
    /\ moveListeners' = Without(moveListeners, Ids(upListeners))
    /\ upListeners' = Without(upListeners, Ids(upListeners))

MouseDown(e, elementRect) ==
    /\ mounted
    /\ buttons < MaxButtons
    /\ buttons' = buttons + 1
    /\ handleMouseDown(e, elementRect)
    /\ lastEvent' = "mousedown"
    /\ emitted' = << >>
    /\ lastRef' = NoRect
    /\ written' = << >>
    /\ staleBlur' = NoBlur
    /\ UNCHANGED << mounted, element, canvasSize, isEditing, editContent,
                    preEdit, sessionWrites >>
    /\ UNCHANGED animVars
    /\ UNCHANGED styleVars
    /\ UNCHANGED multiVars
    /\ UNCHANGED genVars
    /\ UNCHANGED grab

DocumentMouseMove(e, ref) ==
    /\ emitted' = Dispatch(moveListeners, e, ref)
    /\ lastRef' = ref
    /\ element' = ForwardPosition(element, emitted')
    /\ lastEvent' = "mousemove"
    /\ written' = << >>
    /\ staleBlur' = NoBlur
    /\ UNCHANGED << mounted, canvasSize, isEditing, isDragging, dragOffset,
                    editContent, moveListeners, upListeners, buttons, preEdit,
                    sessionWrites >>
    /\ UNCHANGED animVars
    /\ UNCHANGED styleVars
    /\ UNCHANGED multiVars
    /\ UNCHANGED genVars
    /\ UNCHANGED grab

DocumentMouseUp ==
    /\ buttons > 0
    /\ buttons' = buttons - 1
    /\ handleMouseUp
    /\ lastEvent' = "mouseup"
    /\ emitted' = << >>
    /\ lastRef' = NoRect
    /\ written' = << >>
    /\ staleBlur' = NoBlur
    /\ UNCHANGED << mounted, element, canvasSize, isEditing, dragOffset,
                    editContent, preEdit, sessionWrites >>
    /\ UNCHANGED animVars
    /\ UNCHANGED styleVars
    /\ UNCHANGED multiVars
    /\ UNCHANGED genVars
    /\ UNCHANGED grab

(***************************************************************************)
(* Inline editing.                                                         *)
(***************************************************************************)
\* setIsEditing(true); setEditContent(element.content)
\* handleDoubleClick without setEditContent(element.content)
handleDoubleClickKeepsDraft ==
    /\ isEditing' = TRUE
    /\ editContent' = editContent

handleDoubleClick ==
    /\ isEditing' = TRUE
    /\ editContent' = element.content

\* dblclick on the element or on the textarea inside it (the event bubbles);
\* it follows the mouseup of the second click, so no button is held
DoubleClick ==
    /\ mounted
    /\ buttons = 0
    /\ handleDoubleClick
    /\ preEdit' = IF isEditing THEN preEdit ELSE element.content
    /\ sessionWrites' = IF isEditing THEN sessionWrites ELSE 0
    /\ lastEvent' = "dblclick"
    /\ emitted' = << >>
    /\ lastRef' = NoRect
    /\ written' = << >>
    /\ staleBlur' = NoBlur
    /\ UNCHANGED << mounted, element, canvasSize, isDragging, dragOffset,
                    moveListeners, upListeners, buttons >>
    /\ spans' = << >>
    /\ UNCHANGED << isAnimating, timelines >>
    /\ UNCHANGED styleVars
    /\ UNCHANGED multiVars
    /\ UNCHANGED genVars
    /\ UNCHANGED grab

\* setEditContent(e.target.value)
\* handleTextChange that also sends the value to the store
handleTextChangeWritesThrough(value) ==
    /\ editContent' = value
    /\ element' = [element EXCEPT !.content = value]

\* setEditContent(e.target.value), and nothing else
handleTextChange(value) ==
    /\ editContent' = value
    /\ element' = element

\* the textarea's change event
TextChange(value) ==
    /\ mounted
    /\ isEditing
    /\ handleTextChange(value)
    /\ lastEvent' = "change"
    /\ emitted' = << >>
    /\ lastRef' = NoRect
    /\ written' = << >>
    /\ staleBlur' = NoBlur
    /\ UNCHANGED << mounted, canvasSize, isEditing, isDragging,
                    dragOffset, moveListeners, upListeners, buttons, preEdit,
                    sessionWrites >>
    /\ UNCHANGED animVars
    /\ UNCHANGED styleVars
    /\ UNCHANGED multiVars
    /\ UNCHANGED genVars
    /\ UNCHANGED grab

\* handleTextSave that writes the content it was rendered with
handleTextSaveStored(draft) ==
    /\ element' = element
    /\ isEditing' = FALSE
    /\ written' = << element.content >>
    /\ sessionWrites' = sessionWrites + 1

\* updateTextElement(track.id, element.id, { content: editContent }); setIsEditing(false)
\* handleTextSave without setIsEditing(false)
handleTextSaveWriteOnly(draft) ==
    /\ element' = [element EXCEPT !.content = draft]
    /\ isEditing' = isEditing
    /\ written' = << draft >>
    /\ sessionWrites' = sessionWrites + 1

handleTextSave(draft) ==
    /\ element' = [element EXCEPT !.content = draft]
    /\ isEditing' = FALSE
    /\ written' = << draft >>
    /\ sessionWrites' = sessionWrites + 1

\* the textarea's default action for a line break at the selection i+1..j
InsertLineBreak(value, i, j) ==
    SubSeq(value, 1, i) \o << NL >> \o SubSeq(value, j + 1, Len(value))

\* handleKeyDown that does not look at shiftKey
handleKeyDownAnyEnter(key, shiftKey, i, j) ==
    /\ IF key = "Enter"
       THEN /\ handleTextSave(editContent)
            /\ editContent' = editContent
            /\ staleBlur' = [pending |-> TRUE, editContent |-> editContent]
            /\ lastEvent' = IF shiftKey THEN "shiftEnter" ELSE "enter"
       ELSE /\ editContent' = element.content
            /\ isEditing' = FALSE
            /\ staleBlur' = [pending |-> TRUE, editContent |-> editContent]
            /\ lastEvent' = "escape"
            /\ written' = << >>
            /\ UNCHANGED << element, sessionWrites >>

\* keydown in the focused textarea; i, j: the selection when the key is pressed
handleKeyDown(key, shiftKey, i, j) ==
    /\ IF key = "Enter" /\ ~shiftKey
       THEN /\ handleTextSave(editContent)
            /\ editContent' = editContent
            /\ staleBlur' = [pending |-> TRUE, editContent |-> editContent]
            /\ lastEvent' = "enter"
       ELSE IF key = "Escape"
       THEN /\ editContent' = element.content
            /\ isEditing' = FALSE
            /\ staleBlur' = [pending |-> TRUE, editContent |-> editContent]
            /\ lastEvent' = "escape"
            /\ written' = << >>
            /\ UNCHANGED << element, sessionWrites >>
       ELSE \* Enter with Shift: not prevented, the textarea inserts the break
            /\ Len(InsertLineBreak(editContent, i, j)) <= MaxLen
            /\ handleTextChange(InsertLineBreak(editContent, i, j))
            /\ staleBlur' = NoBlur
            /\ lastEvent' = "shiftEnter"
            /\ written' = << >>
            /\ UNCHANGED << isEditing, sessionWrites >>

KeyDown(key, shiftKey, i, j) ==
    /\ mounted
    /\ isEditing
    /\ handleKeyDown(key, shiftKey, i, j)
    /\ emitted' = << >>
    /\ lastRef' = NoRect
    /\ UNCHANGED << mounted, canvasSize, isDragging, dragOffset, moveListeners,
                    upListeners, buttons, preEdit >>
    /\ UNCHANGED animVars
    /\ UNCHANGED styleVars
    /\ UNCHANGED multiVars
    /\ UNCHANGED genVars
    /\ UNCHANGED grab

\* the textarea loses focus while it is shown: onBlur={handleTextSave}
Blur ==
    /\ mounted
    /\ isEditing
    /\ handleTextSave(editContent)
    /\ lastEvent' = "blur"
    /\ emitted' = << >>
    /\ lastRef' = NoRect
    /\ staleBlur' = NoBlur
    /\ UNCHANGED << mounted, canvasSize, isDragging, dragOffset, editContent,
                    moveListeners, upListeners, buttons, preEdit >>
    /\ UNCHANGED animVars
    /\ UNCHANGED styleVars
    /\ UNCHANGED multiVars
    /\ UNCHANGED genVars
    /\ UNCHANGED grab

\* The commit that follows Enter or Escape removes the focused textarea.  A
\* browser that fires blur for a removed element runs the onBlur of the
\* textarea's last render, which closed over that render's editContent.
BlurOnRemoval ==
    /\ mounted
    /\ staleBlur.pending
    /\ handleTextSave(staleBlur.editContent)
    /\ lastEvent' = IF lastEvent = "escape" THEN "blurAfterEscape" ELSE "blurAfterEnter"
    /\ emitted' = << >>
    /\ lastRef' = NoRect
    /\ staleBlur' = NoBlur
    /\ UNCHANGED << mounted, canvasSize, isDragging, dragOffset, editContent,
                    moveListeners, upListeners, buttons, preEdit >>
    /\ UNCHANGED animVars
    /\ UNCHANGED styleVars
    /\ UNCHANGED multiVars
    /\ UNCHANGED genVars
    /\ UNCHANGED grab

(***************************************************************************)
(* The component's surroundings.                                           *)
(***************************************************************************)
\* the parent renders with another canvasSize
SetCanvasSize(size) ==
    /\ mounted
    /\ size # canvasSize
    /\ canvasSize' = size
    /\ lastEvent' = "canvas"
    /\ emitted' = << >>
    /\ lastRef' = NoRect
    /\ written' = << >>
    /\ staleBlur' = NoBlur
    /\ UNCHANGED << mounted, element, isEditing, isDragging, dragOffset,
                    editContent, moveListeners, upListeners, buttons, preEdit,
                    sessionWrites >>
    /\ UNCHANGED animVars
    /\ UNCHANGED styleVars
    /\ UNCHANGED multiVars
    /\ UNCHANGED genVars
    /\ UNCHANGED grab

\* the properties panel writes the content while the overlay is idle
PanelContentChange(value) ==
    /\ mounted
    /\ ~isEditing
    /\ value # element.content
    /\ element' = [element EXCEPT !.content = value]
    /\ lastEvent' = "panel"
    /\ emitted' = << >>
    /\ lastRef' = NoRect
    /\ written' = << >>
    /\ staleBlur' = NoBlur
    /\ UNCHANGED << mounted, canvasSize, isEditing, isDragging, dragOffset,
                    editContent, moveListeners, upListeners, buttons, preEdit,
                    sessionWrites >>
    /\ spans' = << >>
    /\ UNCHANGED << isAnimating, timelines >>
    /\ UNCHANGED styleVars
    /\ UNCHANGED multiVars
    /\ UNCHANGED genVars
    /\ UNCHANGED grab

\* the component is torn down; it registers no cleanup
Unmount ==
    /\ mounted
    /\ mounted' = FALSE
    /\ lastEvent' = "unmount"
    /\ emitted' = << >>
    /\ lastRef' = NoRect
    /\ written' = << >>
    /\ staleBlur' = NoBlur
    /\ UNCHANGED << element, canvasSize, isEditing, isDragging, dragOffset,
                    editContent, moveListeners, upListeners, buttons, preEdit,
                    sessionWrites >>
    /\ UNCHANGED animVars
    /\ UNCHANGED styleVars
    /\ UNCHANGED multiVars
    /\ UNCHANGED genVars
    /\ UNCHANGED grab

(***************************************************************************)
(* The render: where the element's <div> is placed.                        *)
(***************************************************************************)

\* the percentage without the 50 that centres the origin
PercentFromEdge(coord, size) == RMul(RDiv(coord, R(size)), R(100))

\* 50 + (coord / size) * 100
Percent(coord, size) == RAdd(R(50), RMul(RDiv(coord, R(size)), R(100)))

\* style.left and style.top of the element's <div>, in percent
StyleLeft == Percent(element.x, canvasSize.width)

StyleTop == Percent(element.y, canvasSize.height)

\* the size of the element's node on screen
NodeSize == [width |-> 100, height |-> 40]

\* The element's node as the browser lays it out inside the rectangle of its
\* positioned container: left and top are percentages of the container, and
\* translate(-50%, -50%) puts the node's center there (rotate and scale keep
\* the center).
RenderedRect(el, size, container) ==
    LET centerX == RAdd(R(container.left),
                        RMul(RDiv(Percent(el.x, size.width), R(100)),
                             R(container.width)))
        centerY == RAdd(R(container.top),
                        RMul(RDiv(Percent(el.y, size.height), R(100)),
                             R(container.height)))
    IN  [avail |-> TRUE,
         left |-> RSub(centerX, RDiv(R(NodeSize.width), R(2))),
         top |-> RSub(centerY, RDiv(R(NodeSize.height), R(2))),
         width |-> R(NodeSize.width), height |-> R(NodeSize.height)]

\* how far from the node's center, in whole pixels, the pointer goes down
GrabDeltas == { << 20, -10 >> }

\* Math.floor of a number
Floor(a) == a[1] \div a[2]

\* A pointer-down on the element where it is drawn, the preview surface
\* being its container: onMouseDown with the node's own rectangle.
MouseDownRendered(delta, container) ==
    LET elementRect == RenderedRect(element, canvasSize, container)
        e == << Floor(CenterOf(elementRect).x) + delta[1],
                Floor(CenterOf(elementRect).y) + delta[2] >>
    IN  /\ mounted
        /\ buttons < MaxButtons
        /\ grab.count < MaxGrabs
        /\ buttons' = buttons + 1
        /\ handleMouseDown(e, elementRect)
        /\ grab' = IF isEditing THEN [grab EXCEPT !.count = @ + 1]
                   ELSE [e |-> e, rect |-> container, x |-> element.x,
                         y |-> element.y, canvasSize |-> canvasSize,
                         accepted |-> TRUE, count |-> grab.count + 1]
        /\ lastEvent' = "mousedown"
        /\ emitted' = << >>
        /\ lastRef' = NoRect
        /\ written' = << >>
        /\ staleBlur' = NoBlur
        /\ UNCHANGED << mounted, element, canvasSize, isEditing, editContent,
                        preEdit, sessionWrites >>
        /\ UNCHANGED animVars
        /\ UNCHANGED styleVars
        /\ UNCHANGED multiVars
        /\ UNCHANGED genVars

(***************************************************************************)
(* Animation playback: playAnimation and the gsap timeline it builds.      *)
(* Times are in milliseconds.                                              *)
(***************************************************************************)

\* the names handled by the switch in playAnimation
AnimationNames == {"fadeIn", "slideIn", "bounce", "typewriter", "glow"}

\* duration: 0.5 of the fadeIn tween
FadeInMs == 500
\* duration: 0.5 of the slideIn tween
SlideInMs == 500
\* duration: 0.6 of the bounce tween
BounceMs == 600
\* duration: 0.3 of one pass of the glow tween
GlowMs == 300
\* repeat: 1 of the glow tween (yoyo: one pass there, one pass back)
GlowRepeat == 1
\* duration: 0.05 of each character's tween
CharMs == 50
\* the position parameter i * 0.05 of each character's tween
StaggerMs == 50

\* the contents the animations are played on
AnimTexts == { << >>, << "A", "B" >>, << "A", NL, "B" >> }

\* what the ticker adds to a timeline's playhead between two frames
FrameDeltas == {50, 200}

\* the target of a tween on the display node itself (gsapRef.current)
NodeTarget == 0

\* tl.fromTo / tl.to with one tween on the display node
NodeTween(ms) == << [target |-> NodeTarget, start |-> 0, dur |-> ms] >>

\* the typewriter with every character's tween placed at position 0
TypewriterTweensAtZero(text) ==
    [i \in 1..Len(text) |-> [target |-> i, start |-> 0, dur |-> CharMs]]

\* chars.forEach((char, i) => tl.to(span, {duration: 0.05}, i * 0.05)):
\* text.split('') gives one entry per character, index i from 0
TypewriterTweens(text) ==
    [i \in 1..Len(text) |->
        [target |-> i, start |-> (i - 1) * StaggerMs, dur |-> CharMs]]

\* the tweens the switch puts on the timeline
BuildTweens(animation, text) ==
    CASE animation = "fadeIn" -> NodeTween(FadeInMs)
      [] animation = "slideIn" -> NodeTween(SlideInMs)
      [] animation = "bounce" -> NodeTween(BounceMs)
      [] animation = "typewriter" -> TypewriterTweens(text)
      [] animation = "glow" -> NodeTween(GlowMs * (1 + GlowRepeat))
      [] OTHER -> << >>

\* the end of the last tween of a timeline; 0 for a timeline without tweens
RECURSIVE TweensEnd(_)
TweensEnd(tweens) ==
    IF tweens = << >> THEN 0
    ELSE MathMaxInt(tweens[1].start + tweens[1].dur, TweensEnd(Tail(tweens)))

TimelineDuration(tl) == TweensEnd(tl.tweens)

\* the timeline has played every tween to its end
Finished(tl) == tl.time >= TimelineDuration(tl)

\* a timeline that reports completion as soon as its first tween has ended
CompletedAtFirstTween(tl) ==
    \/ tl.tweens = << >>
    \/ tl.time >= tl.tweens[1].start + tl.tweens[1].dur

\* a timeline that reports completion only if it has played some tween
CompletedUnlessEmpty(tl) == tl.tweens # << >> /\ Finished(tl)

\* gsap calls onComplete when the playhead reaches the end of the timeline;
\* a timeline without tweens has duration 0 and is at its end on the first
\* frame
Completed(tl) == Finished(tl)

\* the display node <div ref={gsapRef}> is rendered only outside editing
gsapRefCurrent == mounted /\ ~isEditing

\* the typewriter's <span>s with the line breaks left out
TypewriterSpansNoBreaks(text) ==
    LET kept == SelectSeq(text, LAMBDA c : c # NL)
    IN  [i \in 1..Len(kept) |-> [char |-> kept[i], opacity |-> 0]]

\* the <span>s the typewriter case puts into the display node
TypewriterSpans(text) ==
    [i \in 1..Len(text) |-> [char |-> text[i], opacity |-> 0]]

NewTimeline(animation) ==
    [animation |-> animation, text |-> element.content,
     tweens |-> BuildTweens(animation, element.content), time |-> 0]

\* playAnimation without the isAnimating half of its guard
playAnimationUnguarded(animation) ==
    IF ~gsapRefCurrent
    THEN UNCHANGED animVars
    ELSE /\ isAnimating' = TRUE
         /\ timelines' = Append(timelines, NewTimeline(animation))
         /\ spans' = IF animation = "typewriter"
                     THEN TypewriterSpans(element.content) ELSE spans

\* playAnimation without the gsapRef half of its guard
playAnimationWithoutNode(animation) ==
    IF isAnimating
    THEN UNCHANGED animVars
    ELSE /\ isAnimating' = TRUE
         /\ timelines' = Append(timelines, NewTimeline(animation))
         /\ spans' = IF animation = "typewriter"
                     THEN TypewriterSpans(element.content) ELSE spans

\* const playAnimation = useCallback((animation) => { ... })
playAnimation(animation) ==
    IF ~gsapRefCurrent \/ isAnimating
    THEN UNCHANGED animVars
    ELSE /\ isAnimating' = TRUE
         /\ timelines' = Append(timelines, NewTimeline(animation))
         /\ spans' = IF animation = "typewriter"
                     THEN TypewriterSpans(element.content) ELSE spans

\* a caller invokes the playAnimation of the current render
Trigger(animation) ==
    /\ mounted
    /\ playAnimation(animation)
    /\ lastEvent' = "trigger"
    /\ emitted' = << >>
    /\ lastRef' = NoRect
    /\ written' = << >>
    /\ staleBlur' = NoBlur
    /\ UNCHANGED << mounted, element, canvasSize, isEditing, isDragging,
                    dragOffset, editContent, moveListeners, upListeners,
                    buttons, preEdit, sessionWrites >>
    /\ UNCHANGED styleVars
    /\ UNCHANGED multiVars
    /\ UNCHANGED genVars
    /\ UNCHANGED grab

\* the opacity, in percent, a character's tween gives its span (ease: "none")
TweenOpacity(tween, time) ==
    IF time <= tween.start THEN 0
    ELSE IF time >= tween.start + tween.dur THEN 100
    ELSE ((time - tween.start) * 100) \div tween.dur

Advance(tl, delta) ==
    [tl EXCEPT !.time = MathMinInt(tl.time + delta, TimelineDuration(tl))]

RECURSIVE Unfinished(_)
Unfinished(tls) ==
    IF tls = << >> THEN << >>
    ELSE IF Finished(tls[1]) THEN Unfinished(Tail(tls))
    ELSE << tls[1] >> \o Unfinished(Tail(tls))

\* One frame of the gsap ticker: every timeline's playhead moves on, the
\* character tweens write their spans' opacity, and a timeline that has
\* reached its end calls onComplete: () => setIsAnimating(false).  Nothing
\* stops the ticker when the component unmounts; the state update of an
\* unmounted component is dropped by React.
Tick(delta) ==
    /\ timelines # << >>
    /\ LET moved == [k \in 1..Len(timelines) |-> Advance(timelines[k], delta)]
           last == moved[Len(moved)]
       IN  /\ timelines' = Unfinished(moved)
           /\ isAnimating' =
                 IF mounted /\ \E k \in 1..Len(moved) : Completed(moved[k])
                 THEN FALSE ELSE isAnimating
           /\ spans' =
                 IF last.animation = "typewriter" /\ Len(spans) = Len(last.tweens)
                 THEN [i \in 1..Len(spans) |->
                         [spans[i] EXCEPT
                            !.opacity = TweenOpacity(last.tweens[i], last.time)]]
                 ELSE spans
    /\ lastEvent' = "tick"
    /\ emitted' = << >>
    /\ lastRef' = NoRect
    /\ written' = << >>
    /\ staleBlur' = NoBlur
    /\ UNCHANGED << mounted, element, canvasSize, isEditing, isDragging,
                    dragOffset, editContent, moveListeners, upListeners,
                    buttons, preEdit, sessionWrites >>
    /\ UNCHANGED styleVars
    /\ UNCHANGED multiVars
    /\ UNCHANGED genVars
    /\ UNCHANGED grab

\* TextProperties.playAnimation, the onAnimationTrigger the properties panel
\* hands to AITextProperties: handleAnimationTrigger calls it and shows a
\* toast; it writes one line to the console and reaches no canvas element
PanelPreview(animation) ==
    /\ mounted
    /\ lastEvent' = "preview"
    /\ emitted' = << >>
    /\ lastRef' = NoRect
    /\ written' = << >>
    /\ staleBlur' = NoBlur
    /\ UNCHANGED << mounted, element, canvasSize, isEditing, isDragging,
                    dragOffset, editContent, moveListeners, upListeners,
                    buttons, preEdit, sessionWrites >>
    /\ UNCHANGED animVars
    /\ UNCHANGED styleVars
    /\ UNCHANGED multiVars
    /\ UNCHANGED genVars
    /\ UNCHANGED grab

(***************************************************************************)
(* The style panels: applyStyle of AITextProperties and of AITextEditor.   *)
(***************************************************************************)

\* applyStyle that copies opacity the way it copies the other fields
applyStyleTruthyOpacity(style) ==
    LET copied == {f \in TruthyFields \cup {"opacity"} : Truthy(style[f])}
    IN  [f \in copied |-> style[f]]

\* const applyStyle = (style: any) => { ... }: the updates object it builds
applyStyle(style) ==
    LET copied == {f \in TruthyFields : Truthy(style[f])}
                    \cup {f \in {"opacity"} : style[f] # Undefined}
    IN  [f \in copied |-> style[f]]

\* the store merges the updates object into the element
UpdateTextElement(el, updates) ==
    [f \in DOMAIN el |-> IF f \in DOMAIN updates THEN updates[f] ELSE el[f]]

\* a click on a quick preset or on a generated option
ApplyStyle(style) ==
    /\ applied' = << applyStyle(style) >>
    /\ typed' = << >>
    /\ attrs' = UpdateTextElement(attrs, applied'[1])
    /\ lastEvent' = "applyStyle"
    /\ emitted' = << >>
    /\ lastRef' = NoRect
    /\ written' = << >>
    /\ staleBlur' = NoBlur
    /\ UNCHANGED << mounted, element, canvasSize, isEditing, isDragging,
                    dragOffset, editContent, moveListeners, upListeners,
                    buttons, preEdit, sessionWrites >>
    /\ UNCHANGED animVars
    /\ UNCHANGED multiVars
    /\ UNCHANGED genVars
    /\ UNCHANGED grab

\* the digits at the front of str, read as a decimal number that continues acc
RECURSIVE LeadingDigits(_, _)
LeadingDigits(str, acc) ==
    IF str = << >> \/ ~IsDigit(Head(str)) THEN acc
    ELSE LeadingDigits(Tail(str), 10 * acc + DigitValue(Head(str)))

\* parseInt that answers 0 where parseInt answers NaN
ParseIntOrZero(str) ==
    LET negative == str # << >> /\ Head(str) = "-"
        body == IF negative THEN Tail(str) ELSE str
        magnitude == LeadingDigits(body, 0)
    IN  IF body = << >> \/ ~IsDigit(Head(body)) THEN Num(0)
        ELSE Num(100 * (IF negative THEN -magnitude ELSE magnitude))

\* parseInt(e.target.value): an optional sign, then the longest run of
\* digits; NaN when there is no digit
ParseInt(str) ==
    LET negative == str # << >> /\ Head(str) = "-"
        body == IF negative THEN Tail(str) ELSE str
        magnitude == LeadingDigits(body, 0)
    IN  IF body = << >> \/ ~IsDigit(Head(body)) THEN NaN
        ELSE Num(100 * (IF negative THEN -magnitude ELSE magnitude))

\* onChange of the font-size <Input type="number">
FontSizeInput(value) ==
    /\ typed' = value
    /\ applied' = << [f \in {"fontSize"} |-> ParseInt(value)] >>
    /\ attrs' = UpdateTextElement(attrs, applied'[1])
    /\ lastEvent' = "fontSizeInput"
    /\ emitted' = << >>
    /\ lastRef' = NoRect
    /\ written' = << >>
    /\ staleBlur' = NoBlur
    /\ UNCHANGED << mounted, element, canvasSize, isEditing, isDragging,
                    dragOffset, editContent, moveListeners, upListeners,
                    buttons, preEdit, sessionWrites >>
    /\ UNCHANGED animVars
    /\ UNCHANGED multiVars
    /\ UNCHANGED genVars
    /\ UNCHANGED grab

(***************************************************************************)
(* The style panels: generateStyles.  A response's text is a sequence of   *)
(* tokens: "[", "]", ",", an object literal "{a}" or "{b}", or "t" for any *)
(* other run of text.                                                      *)
(***************************************************************************)

\* values of the style description field
Prompts == { "", "neon" }

\* the object an object literal of a response stands for
ObjectOf(token) ==
    IF token = "{a}"
    THEN CHOOSE style \in GeneratedStyles : style.name = Str("Style Name")
    ELSE CHOOSE style \in GeneratedStyles : style.name = Str("Half")

\* What generateContent resolves with: the text, and beside it what the text
\* is (kind) and the objects of its array (styles), as a reader of the text
\* sees them.
Responses ==
    { [text |-> << "[", "{a}", "]" >>, kind |-> "array",
       styles |-> << "{a}" >>],
      [text |-> << "t", "[", "{a}", ",", "{b}", "]", "t" >>, kind |-> "array",
       styles |-> << "{a}", "{b}" >>],
      [text |-> << "[", "]" >>, kind |-> "array", styles |-> << >>],
      [text |-> << "t" >>, kind |-> "noArray", styles |-> << >>],
      [text |-> << "]", "t", "[" >>, kind |-> "noArray", styles |-> << >>],
      [text |-> << "[", "{a}", ",", "]" >>, kind |-> "badJson",
       styles |-> << >>],
      [text |-> << "[", "{a}", "]", "t", "[", "t", "]" >>, kind |-> "badJson",
       styles |-> << >>] }

\* a response that never came
NoResponse == [text |-> << >>, kind |-> "none", styles |-> << >>]

\* text.match(/\[[\s\S]*\]/): from the first "[" to the last "]" after it,
\* or << >> for null
Match(text) ==
    LET opens == {i \in 1..Len(text) : text[i] = "["}
        first == CHOOSE i \in opens : \A k \in opens : i <= k
        closes == {j \in 1..Len(text) : text[j] = "]" /\ j > first}
        last == CHOOSE j \in closes : \A k \in closes : k <= j
    IN  IF opens = {} THEN << >>
        ELSE IF closes = {} THEN << >>
        ELSE SubSeq(text, first, last)

\* the elements of a JSON array's inside: object literals with a comma
\* between each two
RECURSIVE Elements(_, _)
Elements(tokens, acc) ==
    IF tokens = << >> THEN [ok |-> FALSE, value |-> << >>]
    ELSE IF Head(tokens) \notin {"{a}", "{b}"}
    THEN [ok |-> FALSE, value |-> << >>]
    ELSE IF Len(tokens) = 1
    THEN [ok |-> TRUE, value |-> Append(acc, ObjectOf(Head(tokens)))]
    ELSE IF tokens[2] # ","
    THEN [ok |-> FALSE, value |-> << >>]
    ELSE Elements(Tail(Tail(tokens)), Append(acc, ObjectOf(Head(tokens))))

\* JSON.parse of a text that begins with "[" and ends with "]": the array,
\* or ok = FALSE where JSON.parse throws
JSONParse(tokens) ==
    LET inside == SubSeq(tokens, 2, Len(tokens) - 1)
    IN  IF inside = << >> THEN [ok |-> TRUE, value |-> << >>]
        ELSE Elements(inside, << >>)

\* generateStyles after its await that drops the finally block
generateStylesSettledNoFinally(response, rejected) ==
    LET jsonMatch == Match(response.text)
        styles == JSONParse(jsonMatch)
    IN  IF ~rejected /\ jsonMatch # << >> /\ styles.ok
        THEN /\ generatedStyles' = styles.value
             /\ isLoading' = FALSE
        ELSE /\ generatedStyles' = generatedStyles
             /\ isLoading' = isLoading

\* generateStyles from the end of its await: the try block's remainder, the
\* catch and the finally
generateStylesSettled(response, rejected) ==
    LET jsonMatch == Match(response.text)
        styles == JSONParse(jsonMatch)
    IN  /\ generatedStyles' =
              IF ~rejected /\ jsonMatch # << >> /\ styles.ok
              THEN styles.value ELSE generatedStyles
        /\ isLoading' = FALSE

\* generateStyles up to its await
generateStyles ==
    IF aiApiKey = "" \/ prompt = ""
    THEN UNCHANGED << isLoading, request >>
    ELSE /\ isLoading' = TRUE
         /\ request' = [pending |-> TRUE, rejected |-> FALSE,
                        response |-> NoResponse]

\* <Button onClick={generateStyles} disabled={isLoading || !aiApiKey}>
GenerateDisabled == isLoading \/ aiApiKey = ""

\* what every step of the panel leaves alone
GenFrame ==
    /\ emitted' = << >>
    /\ lastRef' = NoRect
    /\ written' = << >>
    /\ staleBlur' = NoBlur
    /\ UNCHANGED << mounted, element, canvasSize, isEditing, isDragging,
                    dragOffset, editContent, moveListeners, upListeners,
                    buttons, preEdit, sessionWrites >>
    /\ UNCHANGED animVars
    /\ UNCHANGED styleVars
    /\ UNCHANGED multiVars
    /\ UNCHANGED grab

\* a click on the Generate Styles button; a disabled button delivers none
ClickGenerate ==
    /\ IF GenerateDisabled
       THEN UNCHANGED << isLoading, request >>
       ELSE generateStyles
    /\ lastEvent' = "generate"
    /\ UNCHANGED << aiApiKey, prompt, generatedStyles >>
    /\ GenFrame

\* generateContent resolves and response.text() returns
Resolve(response) ==
    /\ request.pending
    /\ generateStylesSettled(response, FALSE)
    /\ request' = [pending |-> FALSE, rejected |-> FALSE, response |-> response]
    /\ lastEvent' = "settled"
    /\ UNCHANGED << aiApiKey, prompt >>
    /\ GenFrame

\* generateContent rejects, or response.text() throws
Reject ==
    /\ request.pending
    /\ generateStylesSettled(NoResponse, TRUE)
    /\ request' = [pending |-> FALSE, rejected |-> TRUE, response |-> NoResponse]
    /\ lastEvent' = "settled"
    /\ UNCHANGED << aiApiKey, prompt >>
    /\ GenFrame

\* onChange of the description field, or a click on a suggestion
SetPrompt(value) ==
    /\ prompt' = value
    /\ lastEvent' = "prompt"
    /\ UNCHANGED << aiApiKey, isLoading, generatedStyles, request >>
    /\ GenFrame

\* onChange of the API-key field, or the effect that loads the saved key
SetAiApiKey(value) ==
    /\ aiApiKey' = value
    /\ lastEvent' = "apiKey"
    /\ UNCHANGED << prompt, isLoading, generatedStyles, request >>
    /\ GenFrame

(***************************************************************************)
(* Two EditableText instances side by side.  Each instance has its own     *)
(* useState cells; what they share is the document (the mouse listeners    *)
(* and the input focus) and the gsap ticker.                               *)
(***************************************************************************)

\* the texts typed into the two elements
MultiTexts == { << "A" >>, << "B" >> }

\* where the pointer goes down on either element
MultiDownPts == { << 500, 280 >> }

\* what the ticker adds between two frames of the two elements
MultiDeltas == {250}

\* a state setter that reaches every instance's running flag
SetStateShared(a, el) ==
    [b \in ElementIds |->
        IF b = a THEN el ELSE [els[b] EXCEPT !.isAnimating = el.isAnimating]]

\* the useState setters of instance a: the new state of that instance
SetState(a, el) == [els EXCEPT ![a] = el]

\* handleDoubleClick
DoubleClicked(el) == [el EXCEPT !.isEditing = TRUE, !.editContent = el.content]

\* handleTextSave, with the host writing the content into the store
Saved(el) == [el EXCEPT !.content = el.editContent, !.isEditing = FALSE]

\* the Escape branch of handleKeyDown
Cancelled(el) == [el EXCEPT !.isEditing = FALSE, !.editContent = el.content]

\* handleMouseDown
Grabbed(el, e, elementRect) ==
    IF el.isEditing \/ ~elementRect.avail THEN el
    ELSE [el EXCEPT !.dragOffset = GrabOffset(e, elementRect),
                    !.isDragging = TRUE]

\* playAnimation
Started(el, animation) ==
    IF el.isEditing \/ el.isAnimating THEN el
    ELSE [el EXCEPT !.isAnimating = TRUE,
                    !.timeline = << [animation |-> animation,
                                     text |-> el.content,
                                     tweens |-> BuildTweens(animation, el.content),
                                     time |-> 0] >>]

\* one ticker frame on an instance's timeline, with its onComplete
Ticked(el, delta) ==
    IF el.timeline = << >> THEN el
    ELSE LET tl == Advance(el.timeline[1], delta)
         IN  IF Completed(tl)
             THEN [el EXCEPT !.isAnimating = FALSE, !.timeline = << >>]
             ELSE [el EXCEPT !.timeline = << tl >>]

\* the instances that have a handler pair on the document
Owners(listeners) == { listeners[i].owner : i \in 1..Len(listeners) }

MouseDownOn(a, e, elementRect) ==
    /\ pressed < MaxButtons
    /\ pressed' = pressed + 1
    /\ els' = SetState(a, Grabbed(els[a], e, elementRect))
    /\ docListeners' =
          IF els[a].isEditing \/ ~elementRect.avail THEN docListeners
          ELSE Append(docListeners,
                      [owner |-> a, offset |-> GrabOffset(e, elementRect)])
    /\ lastMulti' = [type |-> "mousedown", target |-> a]
    /\ UNCHANGED focused
    /\ UNCHANGED soloVars

\* a 'mousemove' on the document runs every instance's handleMouseMove; none
\* of them changes component state
MultiMouseMove ==
    /\ docListeners # << >>
    /\ lastMulti' = [type |-> "mousemove", target |-> 0]
    /\ UNCHANGED << els, docListeners, focused, pressed >>
    /\ UNCHANGED soloVars

\* a 'mouseup' on the document runs every instance's handleMouseUp
MultiMouseUp ==
    /\ pressed > 0
    /\ pressed' = pressed - 1
    /\ els' = [b \in ElementIds |->
                 IF b \in Owners(docListeners)
                 THEN [els[b] EXCEPT !.isDragging = FALSE] ELSE els[b]]
    /\ docListeners' = << >>
    /\ lastMulti' = [type |-> "mouseup", target |-> 0]
    /\ UNCHANGED focused
    /\ UNCHANGED soloVars

\* A double-click on instance a.  When a enters editing its textarea mounts
\* and takes the focus (autoFocus and textareaRef.current.focus()); the
\* textarea that had the focus gets 'blur', and its onBlur is handleTextSave.
DoubleClickOn(a) ==
    /\ pressed = 0
    /\ LET entered == SetState(a, DoubleClicked(els[a]))
           loser == focused
       IN  els' = IF ~els[a].isEditing /\ loser \in ElementIds \ {a}
                  THEN [entered EXCEPT ![loser] = Saved(els[loser])]
                  ELSE entered
    /\ focused' = a
    /\ lastMulti' = [type |-> "dblclick", target |-> a]
    /\ UNCHANGED << docListeners, pressed >>
    /\ UNCHANGED soloVars

TextChangeOn(a, value) ==
    /\ els[a].isEditing
    /\ focused = a
    /\ els' = SetState(a, [els[a] EXCEPT !.editContent = value])
    /\ lastMulti' = [type |-> "change", target |-> a]
    /\ UNCHANGED << docListeners, focused, pressed >>
    /\ UNCHANGED soloVars

KeyDownOn(a, key) ==
    /\ els[a].isEditing
    /\ focused = a
    /\ els' = SetState(a, IF key = "Enter" THEN Saved(els[a])
                          ELSE Cancelled(els[a]))
    /\ focused' = 0
    /\ lastMulti' = [type |-> "keydown", target |-> a]
    /\ UNCHANGED << docListeners, pressed >>
    /\ UNCHANGED soloVars

BlurOn(a) ==
    /\ els[a].isEditing
    /\ focused = a
    /\ els' = SetState(a, Saved(els[a]))
    /\ focused' = 0
    /\ lastMulti' = [type |-> "blur", target |-> a]
    /\ UNCHANGED << docListeners, pressed >>
    /\ UNCHANGED soloVars

TriggerOn(a, animation) ==
    /\ els' = SetState(a, Started(els[a], animation))
    /\ lastMulti' = [type |-> "trigger", target |-> a]
    /\ UNCHANGED << docListeners, focused, pressed >>
    /\ UNCHANGED soloVars

\* one frame of the gsap ticker, which drives every instance's timeline
MultiTick(delta) ==
    /\ \E b \in ElementIds : els[b].timeline # << >>
    /\ els' = [b \in ElementIds |-> Ticked(els[b], delta)]
    /\ lastMulti' = [type |-> "tick", target |-> 0]
    /\ UNCHANGED << docListeners, focused, pressed >>
    /\ UNCHANGED soloVars

\* the pointer, the drag closures, the mode changes and the teardown
NextDrag ==
    \/ \E e \in DownPts, r \in ElementRects \cup {NoElementRect} : MouseDown(e, r)
    \/ \E e \in PointerPts, r \in PreviewRects \cup {NoRect} : DocumentMouseMove(e, r)
    \/ DocumentMouseUp
    \/ DoubleClick
    \/ \E key \in {"Enter", "Escape"} : KeyDown(key, FALSE, 0, 0)
    \/ Blur
    \/ BlurOnRemoval
    \/ \E size \in CanvasSizes : SetCanvasSize(size)
    \/ Unmount

\* the edit session and the texts that pass through it
NextEdit ==
    \/ DoubleClick
    \/ \E v \in Texts : TextChange(v)
    \/ \E key \in {"Enter", "Escape"}, shiftKey \in BOOLEAN,
          i \in 0..MaxLen, j \in 0..MaxLen :
          /\ i <= j
          /\ j <= Len(editContent)
          /\ KeyDown(key, shiftKey, i, j)
    \/ Blur
    \/ BlurOnRemoval
    \/ \E v \in Texts : PanelContentChange(v)
    \/ Unmount

\* the playback, the mode changes that mount and unmount the display node,
\* the content the typewriter splits, and the teardown
NextAnim ==
    \/ \E a \in AnimationNames : Trigger(a)
    \/ \E d \in FrameDeltas : Tick(d)
    \/ \E a \in AnimationNames : PanelPreview(a)
    \/ DoubleClick
    \/ \E key \in {"Enter", "Escape"} : KeyDown(key, FALSE, 0, 0)
    \/ Blur
    \/ BlurOnRemoval
    \/ \E v \in AnimTexts : PanelContentChange(v)
    \/ Unmount

\* the style panels
NextStyle ==
    \/ \E style \in QuickStyles \cup GeneratedStyles : ApplyStyle(style)
    \/ \E value \in FontSizeEntries : FontSizeInput(value)

\* the events of two elements side by side
NextMulti ==
    \/ \E a \in ElementIds, e \in MultiDownPts, r \in ElementRects :
          MouseDownOn(a, e, r)
    \/ MultiMouseMove
    \/ MultiMouseUp
    \/ \E a \in ElementIds : DoubleClickOn(a)
    \/ \E a \in ElementIds, v \in MultiTexts : TextChangeOn(a, v)
    \/ \E a \in ElementIds, key \in {"Enter", "Escape"} : KeyDownOn(a, key)
    \/ \E a \in ElementIds : BlurOn(a)
    \/ \E a \in ElementIds, n \in {"fadeIn", "typewriter"} : TriggerOn(a, n)
    \/ \E d \in MultiDeltas : MultiTick(d)

\* the texts typed before a commit that a pointer-down follows
CommitTexts == { << "B" >>, << "A", "B" >> }

\* an edit session and the pointer-downs around its commit
NextCommit ==
    \/ DoubleClick
    \/ \E v \in CommitTexts : TextChange(v)
    \/ \E key \in {"Enter", "Escape"} : KeyDown(key, FALSE, 0, 0)
    \/ Blur
    \/ BlurOnRemoval
    \/ \E e \in DownPts, r \in ElementRects : MouseDown(e, r)
    \/ \E e \in PointerPts, r \in PreviewRects : DocumentMouseMove(e, r)
    \/ DocumentMouseUp

\* the panel that asks the model for styles
NextGen ==
    \/ ClickGenerate
    \/ \E response \in Responses : Resolve(response)
    \/ Reject
    \/ \E value \in Prompts : SetPrompt(value)
    \/ \E value \in ApiKeys : SetAiApiKey(value)

\* the pointer-down lands on the element where the render put it
GrabPts == { << 480, 270 >>, << 500, 260 >> }

NextGrab ==
    \/ \E d \in GrabDeltas, r \in PreviewRects : MouseDownRendered(d, r)
    \/ \E e \in GrabPts, r \in PreviewRects : DocumentMouseMove(e, r)
    \/ DocumentMouseUp
    \/ \E size \in CanvasSizes : SetCanvasSize(size)

\* Every event of the overlay.  The drag handlers read no text and the edit
\* handlers read no pointer state, so the two halves are explored separately
\* (SpecDrag, SpecEdit); both share handleDoubleClick, handleKeyDown, the two
\* blurs and the teardown.  The playback (SpecAnim), the style panels
\* (SpecStyle) and the pair of elements (SpecMulti) are explored likewise.
Next ==
    NextDrag \/ NextEdit \/ NextAnim \/ NextStyle \/ NextMulti \/ NextCommit
        \/ NextGrab \/ NextGen

Spec == Init /\ [][Next]_vars

\* the drag gesture with the text held fixed
SpecDrag == Init /\ [][NextDrag]_vars

\* the edit session with the pointer at rest
SpecEdit == Init /\ [][NextEdit]_vars

\* the animation playback with the pointer at rest
SpecAnim == Init /\ [][NextAnim]_vars

\* the playback with the gsap ticker running: requestAnimationFrame keeps
\* delivering frames while a timeline is active
SpecAnimLive ==
    Init /\ [][NextAnim]_vars /\ WF_vars(\E d \in FrameDeltas : Tick(d))

\* commits and the drags that follow them
SpecCommit == Init /\ [][NextCommit]_vars

\* the style panels alone
SpecStyle == Init /\ [][NextStyle]_vars

\* two elements side by side
SpecMulti == Init /\ [][NextMulti]_vars

\* a drag that starts on the element where it is drawn
SpecGrab == Init /\ [][NextGrab]_vars

\* the panel that asks the model for styles
SpecGen == Init /\ [][NextGen]_vars

(***************************************************************************)
(* Properties of the drag gesture (checked under SpecDrag).                *)
(***************************************************************************)
\* the unclamped coordinate of a call, as numerator and denominator over
\* integers: ((client - offset - start) / extent - 1/2) * size = RawNum / RawDen
RawNum(client, offset, start, extent, size) ==
    (2 * (client * offset[2] - offset[1] - start * offset[2]) - extent * offset[2]) * size
RawDen(offset, extent) == 2 * extent * offset[2]

\* got = clamp(RawNum / RawDen, -size/2, size/2)
IsClampOfRaw(got, client, offset, start, extent, size) ==
    LET n == RawNum(client, offset, start, extent, size)
        d == RawDen(offset, extent)
    IN  IF 2 * n > size * d THEN 2 * got[1] = size * got[2]
        ELSE IF 2 * n < -size * d THEN 2 * got[1] = -size * got[2]
        ELSE got[1] * d = n * got[2]

\* C1: every (x, y) handed to onPositionUpdate on a move tick lies in
\* [-canvasWidth/2, canvasWidth/2] x [-canvasHeight/2, canvasHeight/2] of the
\* canvas size the tick computes with.
C1_PositionWithinCanvas ==
    \A k \in 1..Len(emitted) :
        LET c == emitted[k] IN
        /\ -c.canvasSize.width * c.x[2] <= 2 * c.x[1]
        /\ 2 * c.x[1] <= c.canvasSize.width * c.x[2]
        /\ -c.canvasSize.height * c.y[2] <= 2 * c.y[1]
        /\ 2 * c.y[1] <= c.canvasSize.height * c.y[2]

\* a tick whose unclamped x lies beyond the right edge and whose unclamped y
\* lies above the top edge
C1_Witness ==
    /\ lastEvent = "mousemove"
    /\ \E k \in 1..Len(emitted) :
        LET c == emitted[k] IN
        /\ 2 * RawNum(c.e[1], c.offset.x, c.rect.left, c.rect.width, c.canvasSize.width)
             > c.canvasSize.width * RawDen(c.offset.x, c.rect.width)
        /\ 2 * RawNum(c.e[2], c.offset.y, c.rect.top, c.rect.height, c.canvasSize.height)
             < -c.canvasSize.height * RawDen(c.offset.y, c.rect.height)

\* C2: the emitted x is clamp(((pointerX - grabOffsetX - rectLeft) / rectWidth
\* - 0.5) * canvasWidth, -canvasWidth/2, canvasWidth/2), likewise y; and canvas
\* 1920x1080, grab offset (0,0), rect {0, 0, 960, 540}, pointer (1000, 0) give
\* x = 960.
C2_EmittedIsClampedTransform ==
    \A k \in 1..Len(emitted) :
        LET c == emitted[k] IN
        /\ IsClampOfRaw(c.x, c.e[1], c.offset.x, c.rect.left, c.rect.width,
                        c.canvasSize.width)
        /\ IsClampOfRaw(c.y, c.e[2], c.offset.y, c.rect.top, c.rect.height,
                        c.canvasSize.height)
        /\ ( /\ c.canvasSize = [width |-> 1920, height |-> 1080]
             /\ c.offset = [x |-> << 0, 1 >>, y |-> << 0, 1 >>]
             /\ c.rect = [avail |-> TRUE, left |-> 0, top |-> 0, width |-> 960,
                          height |-> 540]
             /\ c.e = << 1000, 0 >> )
           => c.x = << 960, 1 >>

\* the spec's coordinate example has been played, and so has a tick on the
\* offset preview surface that lands inside the canvas
C2_Witness ==
    /\ lastEvent = "mousemove"
    /\ \E k \in 1..Len(emitted) :
        LET c == emitted[k] IN
        /\ c.canvasSize = [width |-> 1920, height |-> 1080]
        /\ c.offset = [x |-> << 0, 1 >>, y |-> << 0, 1 >>]
        /\ c.rect.width = 960
        /\ c.e = << 1000, 0 >>
        /\ c.x = << 960, 1 >>

\* C3: after the release signal the session is inactive and both observers of
\* the gesture are gone; until a new pointer-down none is installed, and a move
\* signal delivered then makes no onPositionUpdate call.
C3_ReleaseDetaches ==
    /\ [](lastEvent = "mouseup" =>
              /\ moveListeners = << >>
              /\ upListeners = << >>
              /\ (mounted => ~isDragging))
    /\ [][(moveListeners = << >> /\ lastEvent' # "mousedown")
              => moveListeners' = << >>]_vars
    /\ [][(moveListeners = << >> /\ lastEvent' = "mousemove")
              => emitted' = << >>]_vars

\* a drag moved the element, was released, and a move signal came afterwards
C3_Witness ==
    /\ lastEvent = "mousemove"
    /\ mounted
    /\ buttons = 0
    /\ moveListeners = << >>
    /\ ~isDragging
    /\ dragOffset.x = << 20, 1 >>
    /\ element.x # << 0, 1 >>
    /\ emitted = << >>

\* C4: once the component is torn down, no drag observer remains on the
\* document and no move signal makes an onPositionUpdate call.
C4_TeardownDetaches ==
    ~mounted => (moveListeners = << >> /\ upListeners = << >> /\ emitted = << >>)

\* C5: while the mode is editing no drag exists: a pointer-down leaves the
\* session inactive and installs no observer, and move signals make no
\* onPositionUpdate call.
C5_NoDragWhileEditing ==
    isEditing =>
        /\ ~isDragging
        /\ moveListeners = << >>
        /\ upListeners = << >>
        /\ emitted = << >>

\* a button went down on the element while it was editing, then the pointer moved
C5_Witness ==
    /\ isEditing
    /\ buttons > 0
    /\ lastEvent = "mousemove"

(***************************************************************************)
(* Properties of the edit session (checked under SpecEdit).                *)
(***************************************************************************)
\* C6: a commit (plain Enter, or blur of the input) writes the draft to the
\* store as the content, once in that step, and returns the mode to idle.
C6_CommitWritesDraft ==
    lastEvent \in {"enter", "blur"} =>
        /\ ~isEditing
        /\ element.content = editContent
        /\ written = << editContent >>

\* from content "A" the draft "AB" was committed with Enter
C6_Witness ==
    /\ lastEvent = "enter"
    /\ preEdit = << "A" >>
    /\ element.content = << "A", "B" >>
    /\ ~isEditing

\* C7: an edit session writes the content at most once, also when the blur of
\* the input follows the Enter that committed it.
C7_OneWritePerCommit ==
    sessionWrites <= 1

\* C8: after Escape, and after a blur of the input that follows it, the mode is
\* idle, the stored content is the pre-edit content and the session has made
\* no write.
C8_CancelWritesNothing ==
    lastEvent \in {"escape", "blurAfterEscape"} =>
        /\ ~isEditing
        /\ element.content = preEdit
        /\ written = << >>
        /\ sessionWrites = 0

\* C9: Enter with Shift held leaves the mode editing, writes nothing and puts
\* the line break into the draft; the plain Enter after it commits that draft.
C9_ShiftEnterKeepsEditing ==
    /\ [](lastEvent = "shiftEnter" =>
              /\ isEditing
              /\ written = << >>
              /\ sessionWrites = 0
              /\ element.content = preEdit
              /\ \E k \in 1..Len(editContent) : editContent[k] = NL)
    /\ [][(lastEvent = "shiftEnter" /\ lastEvent' = "enter") =>
              /\ element'.content = editContent
              /\ \E k \in 1..Len(element'.content) : element'.content[k] = NL]_vars

\* editing "A", Shift+Enter has put the break behind the "A"
C9_Witness ==
    /\ lastEvent = "shiftEnter"
    /\ isEditing
    /\ preEdit = << "A" >>
    /\ editContent = << "A", NL >>

\* C10: a double-click while editing leaves the mode editing and the draft as
\* it was.
C10_DoubleClickWhileEditingIsNoOp ==
    [][(isEditing /\ lastEvent' = "dblclick") =>
          (isEditing' /\ editContent' = editContent)]_vars

\* C11: an element has at most one playback at any time, and a trigger that
\* arrives while a playback is running changes nothing: the running playback
\* keeps its preset and its playhead, nothing is queued and nothing replaced.
C11_OnePlaybackAtATime ==
    /\ [](Len(timelines) <= 1)
    /\ [][(lastEvent' = "trigger" /\ isAnimating) => UNCHANGED animVars]_vars

\* a trigger arrived while fadeIn was part-way through, and fadeIn is still
\* the only playback
C11_Witness ==
    /\ lastEvent = "trigger"
    /\ isAnimating
    /\ Len(timelines) = 1
    /\ timelines[1].animation = "fadeIn"
    /\ timelines[1].time > 0

\* C12: the running flag becomes true in the step that builds the sequence,
\* and it goes from true to false only when every step of the sequence has
\* finished (for the typewriter, every character is fully revealed); while
\* the component is mounted, running = false means no sequence is unfinished.
C12_RunningUntilFullCompletion ==
    /\ []((mounted /\ ~isAnimating) => timelines = << >>)
    /\ [][(lastEvent' = "trigger" /\ timelines' # timelines)
             => (~isAnimating /\ isAnimating')]_vars
    /\ [][(isAnimating /\ ~isAnimating')
             => /\ timelines' = << >>
                /\ \A i \in 1..Len(spans') : spans'[i].opacity = 100]_vars

\* a typewriter over several characters has completed and reset the flag
C12_Witness ==
    /\ lastEvent = "tick"
    /\ mounted
    /\ ~isAnimating
    /\ Len(spans) >= 2
    /\ \A i \in 1..Len(spans) : spans[i].opacity = 100

\* C13: the typewriter on a content of N characters builds exactly N reveal
\* units, unit i (counted from 0) begins i * 50 ms after the start, and the
\* sequence lasts (N - 1) * 50 ms + 50 ms.
C13_TypewriterStagger ==
    \A k \in 1..Len(timelines) :
        LET tl == timelines[k]
            N == Len(tl.text)
        IN  tl.animation = "typewriter" =>
              /\ Len(tl.tweens) = N
              /\ \A i \in 0..(N - 1) : tl.tweens[i + 1].start = i * 50
              /\ \A i \in 0..(N - 1) : tl.tweens[i + 1].target = i + 1
              /\ TimelineDuration(tl) = (N - 1) * 50 + 50

\* a typewriter over three characters has just been built
C13_Witness ==
    /\ lastEvent = "trigger"
    /\ Len(timelines) = 1
    /\ timelines[1].animation = "typewriter"
    /\ Len(timelines[1].text) = 3
    /\ Len(spans) = 3
    /\ timelines[1].time = 0

\* C14: a Preview of a preset in the properties panel, for an element whose
\* display node is mounted and that has no playback running, starts a
\* playback on the canvas element (its running flag becomes true).
C14_PreviewStartsPlayback ==
    [][(lastEvent' = "preview" /\ gsapRefCurrent /\ ~isAnimating)
          => (isAnimating' /\ timelines' # << >>)]_vars

\* C19: after the component is torn down no animation step is applied and
\* no completion callback changes the component's state.
C19_TeardownStopsPlayback ==
    [][~mounted => UNCHANGED animVars]_vars

C16_OneUpdatePerMove ==
    (lastEvent = "mousemove" /\ lastRef.avail /\ moveListeners # << >>)
       => /\ Len(emitted) = 1
          /\ mounted => (element.x = emitted[1].x /\ element.y = emitted[1].y)

\* C17: a move signal that finds the reference rect unavailable is skipped:
\* no onPositionUpdate call, the stored position and the drag session with
\* its observers stay as they are; a move signal that finds the rect while a
\* session is active updates the position.
C17_MoveWithoutRectIsSkipped ==
    /\ [][(lastEvent' = "mousemove" /\ ~lastRef'.avail)
             => /\ emitted' = << >>
                /\ UNCHANGED << element, isDragging, dragOffset,
                                moveListeners, upListeners >>]_vars
    /\ [][(lastEvent' = "mousemove" /\ lastRef'.avail /\ moveListeners # << >>)
             => /\ emitted' # << >>
                /\ mounted => element'.x = emitted'[Len(emitted')].x]_vars

\* a move was skipped for want of the rect while a drag is in progress
C17_Witness ==
    /\ lastEvent = "mousemove"
    /\ ~lastRef.avail
    /\ mounted
    /\ isDragging
    /\ moveListeners # << >>
    /\ emitted = << >>

\* C18: an element has at most one drag session at any time: one pair of
\* observers on the document, whatever the sequence of pointer-down, move
\* and release signals.
C18_OneDragSession ==
    /\ Len(moveListeners) <= 1
    /\ Len(upListeners) <= 1

\* C20: only values of the data model's shape reach the store through
\* applyStyle: the font size it forwards is a number and the opacity it
\* forwards is a number from 0 to 1.
C20_OnlyShapedValuesReachStore ==
    lastEvent = "applyStyle" => \A k \in 1..Len(applied) :
        LET updates == applied[k]
        IN  /\ "fontSize" \in DOMAIN updates
                => updates["fontSize"].t = "number"
            /\ "opacity" \in DOMAIN updates
                => /\ updates["opacity"].t = "number"
                   /\ updates["opacity"].n >= 0
                   /\ updates["opacity"].n <= 100

\* the value of a run of digits, digit by digit from the right
RECURSIVE DecimalValue(_)
DecimalValue(digits) ==
    IF digits = << >> THEN 0
    ELSE DigitValue(digits[Len(digits)])
           + 10 * DecimalValue(SubSeq(digits, 1, Len(digits) - 1))

AllDigits(str) == str # << >> /\ \A i \in 1..Len(str) : IsDigit(str[i])

\* C21: a change of the font-size input forwards exactly one update, which
\* holds the font size only; a whole number is forwarded as that number,
\* negative ones included (no clamping), and an entry without a number is
\* forwarded as NaN, not dropped and not replaced by another value.
C21_FontSizeForwardedUnvalidated ==
    lastEvent = "fontSizeInput" =>
       /\ Len(applied) = 1
       /\ DOMAIN applied[1] = {"fontSize"}
       /\ AllDigits(typed)
            => applied[1]["fontSize"] = Num(100 * DecimalValue(typed))
       /\ (typed # << >> /\ Head(typed) = "-" /\ AllDigits(Tail(typed)))
            => applied[1]["fontSize"] = Num(-100 * DecimalValue(Tail(typed)))
       /\ typed = << >> => applied[1]["fontSize"].t = "NaN"

\* the entry was not a number and NaN went to the store
C21_Witness ==
    /\ lastEvent = "fontSizeInput"
    /\ typed = << >>
    /\ Len(applied) = 1
    /\ applied[1]["fontSize"].t = "NaN"
    /\ attrs.fontSize.t = "NaN"

\* C22: the rendered position is left% = 50 + (x / canvasWidth) * 100 and
\* top% = 50 + (y / canvasHeight) * 100 of the stored position and the canvas
\* size, whatever the drag, edit and animation state; for a stored position
\* within the canvas bounds both percentages lie in [0, 100].
C22_RenderedPosition ==
    LET w == canvasSize.width
        h == canvasSize.height
        x == element.x
        y == element.y
    IN  /\ StyleLeft[1] * w * x[2] = StyleLeft[2] * (50 * w * x[2] + 100 * x[1])
        /\ StyleTop[1] * h * y[2] = StyleTop[2] * (50 * h * y[2] + 100 * y[1])
        /\ (-w * x[2] <= 2 * x[1] /\ 2 * x[1] <= w * x[2])
             => (0 <= StyleLeft[1] /\ StyleLeft[1] <= 100 * StyleLeft[2])
        /\ (-h * y[2] <= 2 * y[1] /\ 2 * y[1] <= h * y[2])
             => (0 <= StyleTop[1] /\ StyleTop[1] <= 100 * StyleTop[2])

\* a drag has put the element on the right and top edges of the canvas:
\* left is 100% and top is 0%
C22_Witness ==
    /\ isDragging
    /\ canvasSize = [width |-> 1920, height |-> 1080]
    /\ element.x = R(960)
    /\ element.y = R(-540)
    /\ StyleLeft = R(100)
    /\ StyleTop = R(0)

\* C23: while the component stays mounted, every playback that has started
\* is eventually followed by running = false, for each of the five presets
\* and for the typewriter on empty content, whose sequence has no steps.
C23_PlaybackEnds ==
    (mounted /\ isAnimating) ~> (~isAnimating \/ ~mounted)

\* the typewriter has been accepted on empty content
C23_Witness ==
    /\ lastEvent = "trigger"
    /\ mounted
    /\ isAnimating
    /\ element.content = << >>
    /\ Len(timelines) = 1
    /\ timelines[1].animation = "typewriter"
    /\ timelines[1].tweens = << >>

\* C24: every position handed to onPositionUpdate lies within the bounds of
\* the canvas size of the most recent render, also when the canvas size has
\* changed while the drag was active.
C24_WithinCurrentCanvas ==
    mounted =>
      \A k \in 1..Len(emitted) :
        LET c == emitted[k] IN
        /\ -canvasSize.width * c.x[2] <= 2 * c.x[1]
        /\ 2 * c.x[1] <= canvasSize.width * c.x[2]
        /\ -canvasSize.height * c.y[2] <= 2 * c.y[1]
        /\ 2 * c.y[1] <= canvasSize.height * c.y[2]

\* C25: an element is never editing and dragging at once.  The double-click
\* that enters editing starts no drag (drag session and observers stay as
\* they were), the step into editing is taken with no drag in progress, and
\* a move signal while editing makes no onPositionUpdate call.
C25_EditAndDragExclusive ==
    /\ [](~(isEditing /\ isDragging))
    /\ [][lastEvent' = "dblclick"
            => UNCHANGED << isDragging, dragOffset, moveListeners,
                            upListeners >>]_vars
    /\ [][(~isEditing /\ isEditing')
            => (~isDragging /\ moveListeners = << >> /\ upListeners = << >>)]_vars
    /\ [][(isEditing /\ lastEvent' = "mousemove")
            => (emitted' = << >> /\ element' = element)]_vars

\* an element that a drag had moved has just entered editing
C25_Witness ==
    /\ lastEvent = "dblclick"
    /\ isEditing
    /\ ~isDragging
    /\ element.x # R(0)
    /\ dragOffset.x # R(0)

\* C26: a mutation of the draft while editing changes the draft and nothing
\* else: the mode stays editing, the stored content and position are as
\* before, and no write is made, however many mutations precede the commit
\* or cancel.
C26_DraftMutationIsLocal ==
    /\ [][lastEvent' = "change"
            => /\ isEditing /\ isEditing'
               /\ element' = element
               /\ written' = << >>
               /\ sessionWrites' = sessionWrites
               /\ preEdit' = preEdit]_vars
    /\ [](lastEvent = "change" => (isEditing /\ element.content = preEdit))

\* the draft has been changed away from the stored content
C26_Witness ==
    /\ lastEvent = "change"
    /\ isEditing
    /\ editContent = << "A", NL, "B" >>
    /\ element.content = << "A" >>
    /\ sessionWrites = 0

\* C27: the step from idle into editing sets the draft to the content stored
\* at that moment and leaves the stored content as it is, whatever draft an
\* earlier session or an external content change left behind.
C27_EditStartsFromStoredContent ==
    /\ [][(~isEditing /\ isEditing')
            => (editContent' = element.content /\ element' = element)]_vars
    /\ [](lastEvent = "dblclick" => (isEditing /\ editContent = element.content))

\* the stored content is no longer the one the component was mounted with,
\* and the session that has just begun starts from it
C27_Witness ==
    /\ lastEvent = "dblclick"
    /\ isEditing
    /\ sessionWrites = 0
    /\ element.content = << "A", "B" >>
    /\ editContent = << "A", "B" >>

\* the characters of the typewriter's units, in order
SpanChars == [i \in 1..Len(spans) |-> spans[i].char]

\* C28: the units of an accepted typewriter are the characters of the
\* element's content in order, line breaks included, each at opacity 0, and
\* they are all the display node holds; when the sequence completes, every
\* unit still in the display node has opacity 1.
C28_TypewriterUnitsPreserveContent ==
    /\ [][(lastEvent' = "trigger" /\ timelines' # timelines
             /\ timelines'[Len(timelines')].animation = "typewriter")
            => /\ Len(spans') = Len(element.content)
               /\ \A i \in 1..Len(spans') :
                     /\ spans'[i].char = element.content[i]
                     /\ spans'[i].opacity = 0]_vars
    /\ [][(isAnimating /\ ~isAnimating' /\ timelines # << >>
             /\ timelines[1].animation = "typewriter")
            => \/ spans' = << >>
               \/ /\ Len(spans') = Len(timelines[1].text)
                  /\ \A i \in 1..Len(spans') :
                        /\ spans'[i].char = timelines[1].text[i]
                        /\ spans'[i].opacity = 100]_vars

\* a typewriter over "A", line break, "B" has completed with all three units
\* shown
C28_Witness ==
    /\ lastEvent = "tick"
    /\ mounted
    /\ ~isAnimating
    /\ element.content = << "A", NL, "B" >>
    /\ SpanChars = << "A", NL, "B" >>
    /\ \A i \in 1..Len(spans) : spans[i].opacity = 100

\* C29: the store write of a commit and the step from editing to idle are
\* one step.  No state has the write made and the mode still editing; the
\* step that leaves editing by Enter or blur has written the draft; and a
\* pointer-down starts a drag only from idle.
C29_CommitIsAtomic ==
    /\ [](written # << >>
            => (~isEditing /\ element.content = written[Len(written)]))
    /\ [][(isEditing /\ ~isEditing' /\ lastEvent' \in {"enter", "blur"})
            => (element'.content = editContent /\ written' = << editContent >>)]_vars
    /\ [][(lastEvent' = "mousedown" /\ ~isDragging /\ isDragging')
            => (~isEditing /\ ~isEditing')]_vars

\* a drag has started on the element whose session has just committed "B"
C29_Witness ==
    /\ lastEvent = "mousedown"
    /\ isDragging
    /\ ~isEditing
    /\ preEdit = << "A" >>
    /\ element.content = << "B" >>
    /\ sessionWrites >= 1

\* C30: while the component is mounted, the move and release observers are
\* on the document exactly when the drag session is active.  A pointer-down
\* either is accepted, and then marks the session active and adds one move
\* and one release observer, or (editing, or no element rectangle) changes
\* neither; a release clears the session and both kinds of observer.
C30_ObserversIffDragging ==
    /\ [](mounted => /\ isDragging <=> moveListeners # << >>
                     /\ isDragging <=> upListeners # << >>)
    /\ [][lastEvent' = "mousedown"
            => \/ UNCHANGED << isDragging, dragOffset, moveListeners,
                               upListeners >>
               \/ /\ ~isEditing
                  /\ isDragging'
                  /\ Len(moveListeners') = Len(moveListeners) + 1
                  /\ Len(upListeners') = Len(upListeners) + 1]_vars
    /\ [][(mounted /\ lastEvent' = "mouseup")
            => (~isDragging' /\ moveListeners' = << >>
                             /\ upListeners' = << >>)]_vars

\* a pointer-down outside editing found no element rectangle: a button is
\* down, and there is neither a session nor an observer
C30_Witness ==
    /\ lastEvent = "mousedown"
    /\ mounted
    /\ ~isEditing
    /\ buttons = 1
    /\ ~isDragging
    /\ moveListeners = << >>
    /\ upListeners = << >>


(***************************************************************************)
(* Properties of the grab offset (checked under SpecGrab).                 *)
(***************************************************************************)

\* the call's position is the transform's own value: Constrain changed nothing
Unclamped(c) ==
    /\ c.x = NewCoord(c.e[1], c.offset.x, c.rect.left, c.rect.width,
                      c.canvasSize.width)
    /\ c.y = NewCoord(c.e[2], c.offset.y, c.rect.top, c.rect.height,
                      c.canvasSize.height)

\* the move the last pointer-down's closure makes of this 'mousemove'
GrabCall == emitted'[Len(emitted')]

\* C31: the grab offset makes the start of a drag free of jumps.  When a
\* 'mousemove' runs the closure of the last pointer-down, the element is
\* drawn inside the rectangle the closure measures against, with the canvas
\* size the closure holds, and the move is not clamped, the center of the
\* element's node is afterwards at the pointer position minus the grab
\* offset; and when the pointer is where it went down, in the same
\* rectangle, the position delivered is the one the element had at the
\* pointer-down, and the current one if nothing moved it since.
C31_GrabIsJumpFree ==
    [][ ( /\ lastEvent' = "mousemove"
          /\ emitted' # << >>
          /\ grab.accepted
          /\ mounted
          /\ canvasSize = GrabCall.canvasSize
          /\ Unclamped(GrabCall) )
        => /\ CenterOf(RenderedRect(element', canvasSize', GrabCall.rect))
                = [x |-> RSub(R(GrabCall.e[1]), GrabCall.offset.x),
                   y |-> RSub(R(GrabCall.e[2]), GrabCall.offset.y)]
           /\ (GrabCall.e = grab.e /\ GrabCall.rect = grab.rect)
                => /\ element'.x = grab.x /\ element'.y = grab.y
                   /\ (element.x = grab.x /\ element.y = grab.y)
                        => element' = element ]_vars

\* a drag has moved the element off the origin, a new pointer-down grabbed it
\* off its center, and the first move, at the pointer-down's position, has
\* delivered the position the element already had
C31_Witness ==
    /\ lastEvent = "mousemove"
    /\ Len(emitted) = 1
    /\ grab.accepted
    /\ emitted[1].e = grab.e
    /\ emitted[1].rect = grab.rect
    /\ emitted[1].offset.x # R(0)
    /\ element.x = grab.x
    /\ element.y = grab.y
    /\ element.x # R(0)
    /\ Unclamped(emitted[1])

(***************************************************************************)
(* Properties of the store writes (checked under SpecCommit).              *)
(***************************************************************************)

\* the events the overlay element handles
OverlayEvents ==
    {"mousedown", "mousemove", "mouseup", "dblclick", "change", "shiftEnter",
     "enter", "escape", "blur", "blurAfterEnter", "blurAfterEscape",
     "trigger", "tick"}

C33_TriggerWhileEditingIsNoOp ==
    /\ [][(lastEvent' = "trigger" /\ isEditing)
             => /\ UNCHANGED animVars
                /\ ~isAnimating => (~isAnimating' /\ timelines' = << >>)]_vars
    /\ [][(lastEvent' = "trigger" /\ ~isEditing /\ ~isAnimating)
             => (isAnimating' /\ Len(timelines') = 1)]_vars

\* a trigger has just arrived in editing mode and nothing is running
C33_Witness ==
    /\ lastEvent = "trigger"
    /\ mounted
    /\ isEditing
    /\ ~isAnimating
    /\ timelines = << >>
    /\ spans = << >>

(***************************************************************************)
(* Properties of applyStyle (checked under SpecStyle).                     *)
(***************************************************************************)

\* the style objects a click can apply
ClickableStyles == QuickStyles \cup GeneratedStyles

ListedStyles(response) ==
    [i \in 1..Len(response.styles) |-> ObjectOf(response.styles[i])]

\* C35: generateStyles never leaves the loading flag stuck.  The flag is
\* true exactly while a request is in flight.  A click with no API key or
\* with an empty prompt makes no request and leaves the flag and the
\* generated styles as they are; any other click, made while nothing is
\* loading, sets the flag and makes one request.  When the request settles
\* the flag is false, whether it resolved with an array, resolved with a text
\* that has no array or whose array does not parse, or was rejected; an
\* array replaces the generated styles, and every failure leaves them as
\* they were.
C35_LoadingFlagNeverStuck ==
    /\ [](isLoading <=> request.pending)
    /\ [][(lastEvent' = "generate" /\ (aiApiKey = "" \/ prompt = ""))
             => UNCHANGED << isLoading, generatedStyles, request >>]_vars
    /\ [][(lastEvent' = "generate" /\ aiApiKey # "" /\ prompt # ""
             /\ ~isLoading)
             => /\ isLoading'
                /\ request'.pending
                /\ generatedStyles' = generatedStyles]_vars
    /\ [][lastEvent' = "settled"
             => /\ isLoading
                /\ ~isLoading'
                /\ (request'.rejected \/ request'.response.kind # "array")
                     => generatedStyles' = generatedStyles
                /\ (~request'.rejected /\ request'.response.kind = "array")
                     => generatedStyles' = ListedStyles(request'.response)]_vars

\* the panel holds the styles of an earlier response, and a later request has
\* just failed on a text whose brackets hold no JSON: the flag is down and
\* the earlier styles are still there
C35_Witness ==
    /\ lastEvent = "settled"
    /\ ~isLoading
    /\ ~request.pending
    /\ request.response.kind = "badJson"
    /\ Len(generatedStyles) = 2

====
